---- MODULE Spec2Model ----
(***************************************************************************)
(* Worship Vault (src/streamlit_app.py): a Streamlit script that is re-run *)
(* top to bottom on every user interaction, against a Supabase backend     *)
(* (tables vaults, vault_sessions, uploads, vault_logs; object storage).   *)
(*                                                                         *)
(* One action is one run of the script for one client: the validation of   *)
(* the persistent session at the top of the script, the routing on         *)
(* st.session_state.page and the handler of the widget that was clicked.   *)
(* "Create Vault" alone is split at its two backend calls (the existence   *)
(* query and the insert), because other clients' requests may fall between *)
(* them.  Every backend call either raises or succeeds; the outcome is an  *)
(* input of the action.                                                    *)
(***************************************************************************)
EXTENDS Integers, Sequences, FiniteSets, TLC

\* ----------------------------------------------------------------- bounds
MaxVaults == 2       \* rows of table vaults
MaxTokens == 2       \* sessions ever created (uuid4 values handed out)
SoloTokens == 1      \* sessions ever created where one client is followed
MaxUploads == 2      \* rows of table uploads
MaxLogs == 1         \* rows of table vault_logs
MaxNow == 24         \* the clock stops here (hours)
TickHours == 12      \* one step of the clock (hours)

\* timedelta(hours=24) in validate_session
SessionHours == 24

\* The browser sessions.
Clients == { 1, 2 }

\* ------------------------------------------------------------ input values
\* Text is a sequence of one-character strings, so that strip(), lower() and
\* replace(" ", "-") are computed and not assumed.
NameInputs == { <<"a">>, <<"A", " ">>, <<"a", " ", "b">> }
NoName == << >>              \* st.session_state.vault_name = None
PasskeyInputs == { "", "s", "p" }
NoKey == ""                  \* os.getenv("MASTER_ADMIN_KEY") is None
FileNames == { <<"f">>, <<"g">> }
NoBytes == 0                 \* download_file_bytes returned None
Bytes == { 1, 2 }            \* contents of a file (non-empty)
NoToken == 0                 \* st.session_state.token = None

\* ------------------------------------------------------------ str methods
LowerChar(ch) ==
    CASE ch = "A" -> "a" [] ch = "B" -> "b" [] ch = "F" -> "f" [] ch = "G" -> "g"
      [] OTHER -> ch

Lower(s) == [i \in DOMAIN s |-> LowerChar(s[i])]

RECURSIVE LStrip(_)
LStrip(s) == IF s # << >> /\ Head(s) = " " THEN LStrip(Tail(s)) ELSE s

RECURSIVE RStrip(_)
RStrip(s) ==
    IF s # << >> /\ s[Len(s)] = " " THEN RStrip(SubSeq(s, 1, Len(s) - 1)) ELSE s

Strip(s) == RStrip(LStrip(s))

\* s.replace(" ", "-")
ReplaceSpaces(s) == [i \in DOMAIN s |-> IF s[i] = " " THEN "-" ELSE s[i]]

\* datetime.isoformat() and datetime.fromisoformat(): a time in hours is
\* written as its date and its time of day, and read back.
IsoFormat(t) == [date |-> t \div 24, time |-> t % 24]

FromIsoFormat(s) == s.date * 24 + s.time

VARIABLES
    MASTER_ADMIN_KEY,  \* the deployment's secret, NoKey when not configured
    now,               \* datetime.utcnow(), in hours
    next_token,        \* the next uuid4 value
    vaults,            \* table vaults: sequence of rows, in select order
    vault_sessions,    \* table vault_sessions: set of rows
    buckets,           \* storage: names of the buckets that exist
    objects,           \* storage: set of [bucket, name, data]
    uploads,           \* table uploads: sequence of rows
    vault_logs,        \* table vault_logs: sequence of rows
    st,                \* st.session_state of every client
    screen,            \* the page each client's last run rendered
    pending,           \* a "Create Vault" run between its two backend calls
    worship_vault_images, \* app.py: the files of UPLOAD_FOLDER, [name, data]
    session_files,     \* app.py: st.session_state.files of every client
    issued,            \* history: what create_session was given, per token
    last               \* history: the run that just ended

vars == << MASTER_ADMIN_KEY, now, next_token, vaults, vault_sessions, buckets,
           objects, uploads, vault_logs, st, screen, pending,
           worship_vault_images, session_files, issued, last >>

backend == << vaults, vault_sessions, buckets, objects, uploads, vault_logs >>

\* The state of app.py.
local == << worship_vault_images, session_files >>

\* Session defaults (the "if ... not in st.session_state" block).
SessionDefaults ==
    [ token |-> NoToken, vault_name |-> NoName, is_admin_internal |-> FALSE,
      is_ui_admin |-> FALSE, page |-> "home", show_menu |-> FALSE ]

NoPending == [ active |-> FALSE, name |-> NoName, vault_pass |-> "", admin_pass |-> "" ]

NoIssue ==
    [ vault_name |-> NoName, is_admin_internal |-> FALSE, is_ui_admin |-> FALSE,
      created |-> 0, ended |-> FALSE ]

\* The record of a run: who ran, what the validation at the top said, which
\* handler ran and how it ended, and the values it worked on.
NoRun ==
    [ c |-> 0, op |-> "none", valid |-> "none", outcome |-> "none",
      token |-> NoToken, name |-> NoName, passkey |-> "",
      row |-> [ vault_name |-> NoName, vault_passkey |-> "", admin_passkey |-> "" ],
      internal |-> FALSE, old |-> << >>, new |-> << >>, data |-> NoBytes,
      up |-> "none", query |-> "none", present |-> FALSE, log |-> "none" ]

Init ==
    /\ MASTER_ADMIN_KEY \in { NoKey, "s" }
    /\ now = 0
    /\ next_token = 1
    /\ vaults = << >>
    /\ vault_sessions = {}
    /\ buckets = {}
    /\ objects = {}
    /\ uploads = << >>
    /\ vault_logs = << >>
    /\ st = [c \in Clients |-> SessionDefaults]
    /\ screen = [c \in Clients |-> "home"]
    /\ pending = [c \in Clients |-> NoPending]
    /\ worship_vault_images = {}
    /\ session_files = [c \in Clients |-> << >>]
    /\ issued = [t \in 1..MaxTokens |-> NoIssue]
    /\ last = NoRun

\* ------------------------------------------------------- storage service
\* supabase.storage.from_(bucket).upload(name, data), when it does not raise:
\* the object stored under the name is the data written.  A service that
\* refuses to write over an existing object raises instead, which is the
\* failing outcome of the call.
StorageUpload(objs, bucket, name, data) ==
    { o \in objs : ~(o.bucket = bucket /\ o.name = name) }
        \cup { [bucket |-> bucket, name |-> name, data |-> data] }

\* A removal that empties the bucket.
StorageRemove_Bucket(objs, bucket, name) == { o \in objs : o.bucket # bucket }

\* supabase.storage.from_(bucket).remove([name]), when it does not raise.
StorageRemove(objs, bucket, name) ==
    { o \in objs : ~(o.bucket = bucket /\ o.name = name) }

\* The names a listing of the bucket returns.
StorageNames(bucket) == { o.name : o \in { x \in objects : x.bucket = bucket } }

StorageData(objs, bucket, name) ==
    LET hit == { o \in objs : o.bucket = bucket /\ o.name = name }
    IN  IF hit = {} THEN NoBytes ELSE (CHOOSE o \in hit : TRUE).data

\* The code point of a character of a file name.
Ord(ch) ==
    CASE ch = "F" -> 70 [] ch = "G" -> 71 [] ch = "_" -> 95
      [] ch = "f" -> 102 [] ch = "g" -> 103 [] OTHER -> 0

\* Python's order of two strings: by code points, a proper prefix first.
RECURSIVE StrLess(_, _)
StrLess(a, b) ==
    IF b = << >> THEN FALSE
    ELSE IF a = << >> THEN TRUE
    ELSE IF Ord(Head(a)) # Ord(Head(b)) THEN Ord(Head(a)) < Ord(Head(b))
    ELSE StrLess(Tail(a), Tail(b))

\* sorted(files, key=lambda s: s.lower()): the order of the keys.
KeyLess(a, b) == StrLess(Lower(a), Lower(b))

RECURSIVE SortedNames(_)
SortedNames(S) ==
    IF S = {} THEN << >>
    ELSE LET m == CHOOSE x \in S : \A y \in S : ~KeyLess(y, x)
         IN  <<m>> \o SortedNames(S \ {m})

list_bucket_files(bucket_name, ls_ok) ==
    IF ls_ok /\ bucket_name \in buckets
    THEN SortedNames(StorageNames(bucket_name))
    ELSE << >>

UploadRow(bucket_name, filename) ==
    [ filename |-> filename, vault_name |-> bucket_name,
      url |-> << bucket_name, filename >> ]

\* An upload that leaves an object already stored under the name as it is.
upload_to_bucket_keep_first(bucket_name, data, filename, up_ok, ins_ok) ==
    IF ~(up_ok /\ bucket_name \in buckets)
    THEN [ ok |-> FALSE, objects |-> objects, uploads |-> uploads ]
    ELSE IF StorageData(objects, bucket_name, filename) # NoBytes
    THEN [ ok |-> TRUE, objects |-> objects, uploads |-> uploads ]
    ELSE IF ~ins_ok
    THEN [ ok |-> FALSE,
           objects |-> StorageUpload(objects, bucket_name, filename, data),
           uploads |-> uploads ]
    ELSE [ ok |-> TRUE,
           objects |-> StorageUpload(objects, bucket_name, filename, data),
           uploads |-> Append(uploads, UploadRow(bucket_name, filename)) ]

\* upload_to_bucket: the object is written, then the uploads row inserted;
\* an exception at either call ends it with False.
upload_to_bucket(bucket_name, data, filename, up_ok, ins_ok) ==
    IF ~(up_ok /\ bucket_name \in buckets)
    THEN [ ok |-> FALSE, objects |-> objects, uploads |-> uploads ]
    ELSE IF ~ins_ok
    THEN [ ok |-> FALSE,
           objects |-> StorageUpload(objects, bucket_name, filename, data),
           uploads |-> uploads ]
    ELSE [ ok |-> TRUE,
           objects |-> StorageUpload(objects, bucket_name, filename, data),
           uploads |-> Append(uploads, UploadRow(bucket_name, filename)) ]

\* download_file_bytes: the storage download, then the signed-URL fetch, then
\* None.
download_file_bytes(bucket_name, filename, dl_ok, url_ok) ==
    IF bucket_name \in buckets /\ (dl_ok \/ url_ok)
    THEN StorageData(objects, bucket_name, filename)
    ELSE NoBytes

DeleteRows(rows, bucket_name, filename) ==
    SelectSeq(rows, LAMBDA r : ~(r.filename = filename /\ r.vault_name = bucket_name))

\* remove_file: the object is removed, then the uploads rows deleted; an
\* exception at either call ends it with False.
remove_file(bucket_name, filename, rm_ok, del_ok) ==
    IF ~(rm_ok /\ bucket_name \in buckets)
    THEN [ ok |-> FALSE, objects |-> objects, uploads |-> uploads ]
    ELSE IF ~del_ok
    THEN [ ok |-> FALSE,
           objects |-> StorageRemove(objects, bucket_name, filename),
           uploads |-> uploads ]
    ELSE [ ok |-> TRUE,
           objects |-> StorageRemove(objects, bucket_name, filename),
           uploads |-> DeleteRows(uploads, bucket_name, filename) ]

\* A log_activity that writes filename and details in each other's place.
log_activity_swapped(logs, vault_name, actor, action, filename, details, log_ok) ==
    IF log_ok
    THEN Append(logs, [ vault_name |-> vault_name, actor |-> actor,
                        action |-> action, filename |-> details,
                        details |-> filename ])
    ELSE logs

\* What the record of a run says of its vault_logs insert: not made (the
\* action did not succeed), made, or raised.
LogOutcome(made, log_ok) ==
    IF ~made THEN "none" ELSE IF log_ok THEN "ok" ELSE "failed"

\* log_activity: the insert, any exception swallowed.
log_activity(logs, vault_name, actor, action, filename, details, log_ok) ==
    IF log_ok
    THEN Append(logs, [ vault_name |-> vault_name, actor |-> actor,
                        action |-> action, filename |-> filename,
                        details |-> details ])
    ELSE logs

Actor(is_internal, is_ui_admin) ==
    IF is_internal /\ is_ui_admin THEN "VAULT_ADMIN"
    ELSE IF is_internal /\ ~is_ui_admin THEN "MASTER_ADMIN"
    ELSE "MEMBER"

\* ------------------------------------------------------------- sessions
SessionRow(token, vault_name, is_admin_internal, is_ui_admin) ==
    [ token |-> token, vault_name |-> vault_name,
      is_admin_internal |-> is_admin_internal, is_ui_admin |-> is_ui_admin,
      created_at |-> IsoFormat(now) ]

\* A create_session that sets the client's state before it knows whether the
\* row was written.
create_session_eager(s, vault_name, is_admin_internal, is_ui_admin, ins_ok) ==
    [ ok |-> ins_ok,
      ss |-> [ s EXCEPT !.token = next_token, !.vault_name = vault_name,
                        !.is_admin_internal = is_admin_internal,
                        !.is_ui_admin = is_ui_admin, !.page = "vault" ],
      rows |-> IF ins_ok
               THEN vault_sessions \cup
                   { SessionRow(next_token, vault_name, is_admin_internal, is_ui_admin) }
               ELSE vault_sessions,
      token |-> IF ins_ok THEN next_token ELSE NoToken ]

\* create_session: the row is inserted, and only then is the client's state
\* set; an exception at the insert ends it with False and nothing set.
create_session(s, vault_name, is_admin_internal, is_ui_admin, ins_ok) ==
    IF ~ins_ok
    THEN [ ok |-> FALSE, ss |-> s, rows |-> vault_sessions, token |-> NoToken ]
    ELSE [ ok |-> TRUE,
           ss |-> [ s EXCEPT !.token = next_token, !.vault_name = vault_name,
                             !.is_admin_internal = is_admin_internal,
                             !.is_ui_admin = is_ui_admin, !.page = "vault" ],
           rows |-> vault_sessions \cup
               { SessionRow(next_token, vault_name, is_admin_internal, is_ui_admin) },
           token |-> next_token ]

\* A comparison that still accepts a row of exactly 24 hours.
Fresh_Inclusive(created_at) == now - FromIsoFormat(created_at) <= SessionHours

\* now - created_at < timedelta(hours=24)
Fresh(created_at) == now - FromIsoFormat(created_at) < SessionHours

\* A validate_session that restores is_ui_admin from the row's
\* is_admin_internal.
validate_session_ui_from_internal(s, sel_ok) ==
    IF s.token = NoToken THEN [ valid |-> FALSE, ss |-> s ]
    ELSE IF ~sel_ok THEN [ valid |-> FALSE, ss |-> s ]
    ELSE LET data == { r \in vault_sessions : r.token = s.token }
         IN  IF data = {} THEN [ valid |-> FALSE, ss |-> s ]
             ELSE LET session_row == CHOOSE r \in data : TRUE
                  IN  IF Fresh(session_row.created_at)
                      THEN [ valid |-> TRUE,
                             ss |-> [ s EXCEPT
                                 !.vault_name = session_row.vault_name,
                                 !.is_admin_internal = session_row.is_admin_internal,
                                 !.is_ui_admin = session_row.is_admin_internal,
                                 !.page = "vault" ] ]
                      ELSE [ valid |-> FALSE, ss |-> s ]

\* validate_session: no token, a failed select, no row, or a row of 24 hours
\* or more give False and leave the client's state as it is; otherwise the
\* row's vault and tier are restored, and the page is set to "vault".
validate_session(s, sel_ok) ==
    IF s.token = NoToken THEN [ valid |-> FALSE, ss |-> s ]
    ELSE IF ~sel_ok THEN [ valid |-> FALSE, ss |-> s ]
    ELSE LET data == { r \in vault_sessions : r.token = s.token }
         IN  IF data = {} THEN [ valid |-> FALSE, ss |-> s ]
             ELSE LET session_row == CHOOSE r \in data : TRUE
                  IN  IF Fresh(session_row.created_at)
                      THEN [ valid |-> TRUE,
                             ss |-> [ s EXCEPT
                                 !.vault_name = session_row.vault_name,
                                 !.is_admin_internal = session_row.is_admin_internal,
                                 !.is_ui_admin = session_row.is_ui_admin,
                                 !.page = "vault" ] ]
                      ELSE [ valid |-> FALSE, ss |-> s ]

\* end_session: the row is deleted (an exception swallowed), the identity keys
\* are dropped from the client's state and the page is "home".  A dropped key
\* reads as its default on the next run.
end_session(s, del_ok) ==
    [ ss |-> [ SessionDefaults EXCEPT !.show_menu = s.show_menu ],
      rows |-> IF s.token # NoToken /\ del_ok
               THEN { r \in vault_sessions : r.token # s.token }
               ELSE vault_sessions ]

\* The top of the script: "if st.session_state.token: validate_session()".
\* What the run's record says of it: none (no token), valid or invalid.
ScriptTop(c, sel_ok) == validate_session(st[c], sel_ok)

Validity(c, sel_ok) ==
    IF st[c].token = NoToken THEN "none"
    ELSE IF ~sel_ok THEN "lookup_failed"
    ELSE IF ScriptTop(c, sel_ok).valid THEN "valid" ELSE "invalid"

TopRun(c, sel_ok, op) ==
    [ NoRun EXCEPT !.c = c, !.op = op, !.valid = Validity(c, sel_ok),
                   !.token = st[c].token ]

\* ------------------------------------------------------------ the clock
Tick ==
    /\ now + TickHours <= MaxNow
    /\ now' = now + TickHours
    /\ last' = NoRun
    /\ UNCHANGED << MASTER_ADMIN_KEY, local, next_token, backend, st, screen, pending, issued >>

\* ----------------------------------------------------------------- routing
\* A run in which no widget of the rendered page was clicked (or the clicked
\* widget belongs to a page this run does not render): the session is
\* validated and the page routed to is rendered.  A request for the activity
\* log without is_ui_admin renders no page and resets the page to "vault".
Rerun(c, sel_ok) ==
    LET pre == ScriptTop(c, sel_ok).ss
        denied == pre.page = "activity_log" /\ ~pre.is_ui_admin
    IN  /\ ~pending[c].active
        /\ st' = [st EXCEPT ![c] = IF denied THEN [pre EXCEPT !.page = "vault"] ELSE pre]
        /\ screen' = [screen EXCEPT ![c] = IF denied THEN "denied" ELSE pre.page]
        /\ last' = [ TopRun(c, sel_ok, "render") EXCEPT
                        !.outcome = IF denied THEN "denied" ELSE pre.page ]
        /\ UNCHANGED << MASTER_ADMIN_KEY, local, now, next_token, backend, pending, issued >>

\* --------------------------------------------------------------- home_page
\* r.get("vault_name", "").strip().lower() == vault_input.strip().lower()
SameVaultName(stored, entered) == Lower(Strip(stored)) = Lower(Strip(entered))

\* The "for r in rows: ... break" loop: the index of the first row whose name
\* matches, 0 when none does.
FirstMatch(rows, vault_input) ==
    LET hits == { i \in DOMAIN rows : SameVaultName(rows[i].vault_name, vault_input) }
    IN  IF hits = {} THEN 0 ELSE CHOOSE i \in hits : \A j \in hits : i <= j

\* A chain that asks for the vault's own passkeys before the deployment's.
ResolveTier_VaultFirst(passkey_input, vault_row) ==
    IF passkey_input = vault_row.admin_passkey THEN "VAULT_ADMIN"
    ELSE IF passkey_input = vault_row.vault_passkey THEN "MEMBER"
    ELSE IF passkey_input = MASTER_ADMIN_KEY THEN "SUPER_ADMIN"
    ELSE "IncorrectPasskey"

\* A chain whose secret, when none is configured, is a built-in one.
ResolveTier_DefaultKey(passkey_input, vault_row) ==
    IF passkey_input = (IF MASTER_ADMIN_KEY = NoKey THEN "s" ELSE MASTER_ADMIN_KEY)
    THEN "SUPER_ADMIN"
    ELSE IF passkey_input = vault_row.admin_passkey THEN "VAULT_ADMIN"
    ELSE IF passkey_input = vault_row.vault_passkey THEN "MEMBER"
    ELSE "IncorrectPasskey"

\* A chain whose last branch lets any other passkey in as a member.
ResolveTier_MemberFallback(passkey_input, vault_row) ==
    IF passkey_input = MASTER_ADMIN_KEY THEN "SUPER_ADMIN"
    ELSE IF passkey_input = vault_row.admin_passkey THEN "VAULT_ADMIN"
    ELSE "MEMBER"

\* The if / elif chain on the passkey, in the code's order.
ResolveTier(passkey_input, vault_row) ==
    IF passkey_input = MASTER_ADMIN_KEY THEN "SUPER_ADMIN"
    ELSE IF passkey_input = vault_row.admin_passkey THEN "VAULT_ADMIN"
    ELSE IF passkey_input = vault_row.vault_passkey THEN "MEMBER"
    ELSE "IncorrectPasskey"

\* The flags each branch hands to create_session.
TierInternal(tier) == tier \in { "SUPER_ADMIN", "VAULT_ADMIN" }

TierUi(tier) == tier = "VAULT_ADMIN"

Issue(token, vault_name, is_admin_internal, is_ui_admin) ==
    [ issued EXCEPT ![token] =
        [ vault_name |-> vault_name, is_admin_internal |-> is_admin_internal,
          is_ui_admin |-> is_ui_admin, created |-> now, ended |-> FALSE ] ]

\* "Enter Vault": empty fields are refused; the vault is looked up (a failed
\* query reads as no rows); the passkey decides the tier; create_session.
EnterVault(c, sel_ok, vault_input, passkey_input, q_ok, ins_ok) ==
    LET pre == ScriptTop(c, sel_ok).ss
        rows == IF q_ok THEN vaults ELSE << >>
        i == FirstMatch(rows, vault_input)
        vault_row == IF i = 0 THEN NoRun.row ELSE rows[i]
        tier == ResolveTier(passkey_input, vault_row)
        made == create_session(pre, vault_row.vault_name, TierInternal(tier),
                               TierUi(tier), ins_ok)
        reached == vault_input # << >> /\ passkey_input # "" /\ i # 0
                     /\ tier # "IncorrectPasskey"
        outcome == IF vault_input = << >> \/ passkey_input = "" THEN "EmptyInput"
                   ELSE IF i = 0 THEN "VaultNotFound"
                   ELSE IF tier = "IncorrectPasskey" THEN tier
                   ELSE IF made.ok THEN tier ELSE "SessionPersistError"
    IN  /\ ~pending[c].active
        /\ screen[c] = "home"
        /\ pre.page = "home"
        /\ (reached /\ ins_ok) => next_token <= MaxTokens
        /\ st' = [st EXCEPT ![c] = IF reached THEN made.ss ELSE pre]
        /\ vault_sessions' = IF reached THEN made.rows ELSE vault_sessions
        /\ next_token' = IF reached /\ made.ok THEN next_token + 1 ELSE next_token
        /\ issued' = IF reached /\ made.ok
                      THEN Issue(made.token, vault_row.vault_name,
                                 TierInternal(tier), TierUi(tier))
                      ELSE issued
        /\ screen' = [screen EXCEPT ![c] = "home"]
        /\ last' = [ TopRun(c, sel_ok, "enter") EXCEPT
                        !.outcome = outcome, !.name = vault_input,
                        !.passkey = passkey_input,
                        !.query = IF outcome = "EmptyInput" THEN "none"
                                  ELSE IF q_ok THEN "ok" ELSE "failed",
                        !.row = IF outcome \in { "EmptyInput", "VaultNotFound" }
                                THEN NoRun.row ELSE vault_row,
                        !.token = IF reached THEN made.token ELSE NoToken ]
        /\ UNCHANGED << MASTER_ADMIN_KEY, local, now, vaults, buckets, objects, uploads,
                        vault_logs, pending >>

\* any(r.get("vault_name","").strip().lower() == normalized.lower() ...)
VaultExists(rows, normalized) ==
    \E i \in DOMAIN rows : Lower(Strip(rows[i].vault_name)) = Lower(normalized)

\* "Create Vault", to its existence query: empty fields are refused; a failed
\* query reads as "does not exist"; an existing name is refused.
CreateVaultCheck(c, sel_ok, new_name, vault_pass, admin_pass, q_ok) ==
    LET pre == ScriptTop(c, sel_ok).ss
        empty == new_name = << >> \/ vault_pass = "" \/ admin_pass = ""
        normalized == Strip(new_name)
        exists == q_ok /\ VaultExists(vaults, normalized)
    IN  /\ ~pending[c].active
        /\ screen[c] = "home"
        /\ pre.page = "home"
        /\ st' = [st EXCEPT ![c] = pre]
        /\ pending' = [pending EXCEPT ![c] =
                IF empty \/ exists THEN NoPending
                ELSE [ active |-> TRUE, name |-> normalized,
                       vault_pass |-> vault_pass, admin_pass |-> admin_pass ]]
        /\ screen' = [screen EXCEPT ![c] = "home"]
        /\ last' = [ TopRun(c, sel_ok, "create_check") EXCEPT
                        !.outcome = IF empty THEN "EmptyInput"
                                    ELSE IF exists THEN "DuplicateVaultName"
                                    ELSE "pending",
                        !.name = new_name ]
        /\ UNCHANGED << MASTER_ADMIN_KEY, local, now, next_token, backend, issued >>

\* create_bucket_if_needed: best effort.
create_bucket_if_needed(bucket_name, bk_ok) ==
    IF bk_ok THEN buckets \cup { bucket_name } ELSE buckets

\* "Create Vault", from the bucket on: the bucket is created (best effort),
\* the vaults row inserted, and create_session called with its result
\* ignored; an exception at the insert ends it with "Vault creation failed".
CreateVaultInsert(c, bk_ok, ins_ok, sess_ok) ==
    LET p == pending[c]
        bucket_name == ReplaceSpaces(Lower(p.name))
        made == create_session(st[c], p.name, TRUE, TRUE, sess_ok)
    IN  /\ p.active
        /\ ins_ok => Len(vaults) < MaxVaults
        /\ (ins_ok /\ sess_ok) => next_token <= MaxTokens
        /\ buckets' = create_bucket_if_needed(bucket_name, bk_ok)
        /\ vaults' = IF ins_ok
                      THEN Append(vaults, [ vault_name |-> p.name,
                                            vault_passkey |-> p.vault_pass,
                                            admin_passkey |-> p.admin_pass ])
                      ELSE vaults
        /\ st' = [st EXCEPT ![c] = IF ins_ok THEN made.ss ELSE st[c]]
        /\ vault_sessions' = IF ins_ok THEN made.rows ELSE vault_sessions
        /\ next_token' = IF ins_ok /\ made.ok THEN next_token + 1 ELSE next_token
        /\ issued' = IF ins_ok /\ made.ok
                      THEN Issue(made.token, p.name, TRUE, TRUE) ELSE issued
        /\ pending' = [pending EXCEPT ![c] = NoPending]
        /\ last' = [ NoRun EXCEPT
                        !.c = c, !.op = "create",
                        !.outcome = IF ~ins_ok THEN "VaultCreationFailed"
                                    ELSE IF made.ok THEN "created"
                                    ELSE "SessionPersistError",
                        !.name = p.name,
                        !.token = IF ins_ok THEN made.token ELSE NoToken ]
        /\ UNCHANGED << MASTER_ADMIN_KEY, local, now, objects, uploads, vault_logs, screen >>

\* -------------------------------------------------------------- vault_page
VaultClicks == { "none", "menu", "home", "log", "gallery" }
NoFile == [ name |-> << >>, data |-> NoBytes ]
Files == [ name : FileNames, data : Bytes ]

\* One run that renders the vault page: at most one button is clicked (the
\* menu toggle; with the menu open "Back to Home", which is end_session, and
\* for is_ui_admin "View Activity Log"; "View Gallery"), and the file in the
\* uploader, if any, is uploaded to the bucket named by the session's
\* vault_name and, when that succeeded, logged.  vault and the tier flags
\* are read once, at the top of vault_page.
vault_page(c, sel_ok, click, f, del_ok, up_ok, ins_ok, log_ok) ==
    LET pre == ScriptTop(c, sel_ok).ss
        vault == pre.vault_name
        is_internal == pre.is_admin_internal
        is_ui_admin == pre.is_ui_admin
        ended == end_session(pre, del_ok)
        s1 == CASE click = "menu" -> [pre EXCEPT !.show_menu = ~pre.show_menu]
                [] click = "home" -> ended.ss
                [] click = "log" -> [pre EXCEPT !.page = "activity_log"]
                [] click = "gallery" -> [pre EXCEPT !.page = "gallery"]
                [] OTHER -> pre
        up == upload_to_bucket(vault, f.data, f.name, up_ok, ins_ok)
        has_file == f # NoFile
    IN  /\ ~pending[c].active
        /\ screen[c] = "vault"
        /\ pre.page = "vault"
        /\ click # "none" \/ has_file
        /\ click = "home" => pre.show_menu
        /\ click = "log" => pre.show_menu /\ is_ui_admin
        /\ (has_file /\ up_ok /\ ins_ok) => Len(uploads) < MaxUploads
        /\ (has_file /\ up.ok /\ log_ok) => Len(vault_logs) < MaxLogs
        /\ st' = [st EXCEPT ![c] = s1]
        /\ vault_sessions' = IF click = "home" THEN ended.rows ELSE vault_sessions
        /\ issued' = IF click = "home" /\ pre.token # NoToken
                      THEN [issued EXCEPT ![pre.token].ended = TRUE] ELSE issued
        /\ objects' = IF has_file THEN up.objects ELSE objects
        /\ uploads' = IF has_file THEN up.uploads ELSE uploads
        /\ vault_logs' = IF has_file /\ up.ok
                          THEN log_activity(vault_logs, vault,
                                            Actor(is_internal, is_ui_admin),
                                            "upload", f.name, << >>, log_ok)
                          ELSE vault_logs
        /\ screen' = [screen EXCEPT ![c] = "vault"]
        /\ last' = [ TopRun(c, sel_ok, IF click = "home" THEN "end_session" ELSE click)
                      EXCEPT !.outcome = IF click = "home" /\ ~del_ok
                                         THEN "delete_failed" ELSE "done",
                             !.internal = is_internal,
                             !.up = IF ~has_file THEN "none"
                                    ELSE IF up.ok THEN "ok" ELSE "failed",
                             !.name = vault,
                             !.old = f.name, !.data = f.data,
                             !.log = LogOutcome(has_file /\ up.ok, log_ok) ]
        /\ UNCHANGED << MASTER_ADMIN_KEY, local, now, next_token, vaults, buckets, pending >>

\* ------------------------------------------------------------ gallery_page
InList(files, fname) == \E i \in DOMAIN files : files[i] = fname

\* "Back to Vault" on the gallery: the page is set, the gallery still rendered.
GalleryBack(c, sel_ok) ==
    LET pre == ScriptTop(c, sel_ok).ss
    IN  /\ ~pending[c].active
        /\ screen[c] = "gallery"
        /\ pre.page = "gallery"
        /\ st' = [st EXCEPT ![c] = [pre EXCEPT !.page = "vault"]]
        /\ screen' = [screen EXCEPT ![c] = "gallery"]
        /\ last' = [ TopRun(c, sel_ok, "back") EXCEPT !.outcome = "done" ]
        /\ UNCHANGED << MASTER_ADMIN_KEY, local, now, next_token, backend, pending, issued >>

\* The uploads.update(...).eq("filename", fname).eq("vault_name", vault).
UpdateRows(rows, vault, fname, new_name) ==
    [ i \in DOMAIN rows |->
        IF rows[i].filename = fname /\ rows[i].vault_name = vault
        THEN [ rows[i] EXCEPT !.filename = new_name, !.url = << vault, new_name >> ]
        ELSE rows[i] ]

\* A rename that removes the old object before it writes the new one.
rename_file_remove_first(vault, fname, new_name, b, up_ok, upd_ok, rm_ok) ==
    IF b = NoBytes
    THEN [ outcome |-> "download_failed", objects |-> objects, uploads |-> uploads ]
    ELSE IF ~(rm_ok /\ vault \in buckets)
    THEN [ outcome |-> "remove_failed", objects |-> objects, uploads |-> uploads ]
    ELSE IF ~up_ok
    THEN [ outcome |-> "upload_failed",
           objects |-> StorageRemove(objects, vault, fname),
           uploads |-> uploads ]
    ELSE IF ~upd_ok
    THEN [ outcome |-> "update_failed",
           objects |-> StorageUpload(StorageRemove(objects, vault, fname),
                                     vault, new_name, b),
           uploads |-> uploads ]
    ELSE [ outcome |-> "renamed",
           objects |-> StorageUpload(StorageRemove(objects, vault, fname),
                                     vault, new_name, b),
           uploads |-> UpdateRows(uploads, vault, fname, new_name) ]

\* A rename that reports success and leaves the old object in the bucket.
rename_file_keep_old(vault, fname, new_name, b, up_ok, upd_ok, rm_ok) ==
    IF b = NoBytes
    THEN [ outcome |-> "download_failed", objects |-> objects, uploads |-> uploads ]
    ELSE IF ~(up_ok /\ vault \in buckets)
    THEN [ outcome |-> "upload_failed", objects |-> objects, uploads |-> uploads ]
    ELSE IF ~upd_ok
    THEN [ outcome |-> "update_failed",
           objects |-> StorageUpload(objects, vault, new_name, b),
           uploads |-> uploads ]
    ELSE [ outcome |-> IF rm_ok THEN "renamed" ELSE "remove_failed",
           objects |-> StorageUpload(objects, vault, new_name, b),
           uploads |-> UpdateRows(uploads, vault, fname, new_name) ]

\* The body of the "Rename" button: download; if bytes came, upload them
\* under the new name, update the uploads rows, remove the old object, log.
\* The first call that raises ends it ("Rename failed"), what was done stays.
\* No tier is asked for, and the new name is not looked up.
rename_file(vault, fname, new_name, b, up_ok, upd_ok, rm_ok) ==
    IF b = NoBytes
    THEN [ outcome |-> "download_failed", objects |-> objects, uploads |-> uploads ]
    ELSE IF ~(up_ok /\ vault \in buckets)
    THEN [ outcome |-> "upload_failed", objects |-> objects, uploads |-> uploads ]
    ELSE IF ~upd_ok
    THEN [ outcome |-> "update_failed",
           objects |-> StorageUpload(objects, vault, new_name, b),
           uploads |-> uploads ]
    ELSE IF ~rm_ok
    THEN [ outcome |-> "remove_failed",
           objects |-> StorageUpload(objects, vault, new_name, b),
           uploads |-> UpdateRows(uploads, vault, fname, new_name) ]
    ELSE [ outcome |-> "renamed",
           objects |-> StorageRemove(StorageUpload(objects, vault, new_name, b),
                                     vault, fname),
           uploads |-> UpdateRows(uploads, vault, fname, new_name) ]

\* Whether the gallery renders the "Rename" button of a listed file.
RenameOffered(is_internal) == TRUE

\* Whether the gallery renders the "Delete" button of a listed file.
DeleteOffered(is_internal) == is_internal

Rename(c, sel_ok, fname, new_name, ls_ok, dl_ok, url_ok, up_ok, upd_ok, rm_ok, log_ok) ==
    LET pre == ScriptTop(c, sel_ok).ss
        vault == pre.vault_name
        files == list_bucket_files(vault, ls_ok)
        b == download_file_bytes(vault, fname, dl_ok, url_ok)
        done == rename_file(vault, fname, new_name, b, up_ok, upd_ok, rm_ok)
    IN  /\ ~pending[c].active
        /\ screen[c] = "gallery"
        /\ pre.page = "gallery"
        /\ InList(files, fname)
        /\ RenameOffered(pre.is_admin_internal)
        /\ (done.outcome = "renamed" /\ log_ok) => Len(vault_logs) < MaxLogs
        /\ st' = [st EXCEPT ![c] = pre]
        /\ objects' = done.objects
        /\ uploads' = done.uploads
        /\ vault_logs' = IF done.outcome = "renamed"
                          THEN log_activity(vault_logs, vault,
                                   Actor(pre.is_admin_internal, pre.is_ui_admin),
                                   "rename", fname, new_name, log_ok)
                          ELSE vault_logs
        /\ screen' = [screen EXCEPT ![c] = "gallery"]
        /\ last' = [ TopRun(c, sel_ok, "rename") EXCEPT
                        !.outcome = done.outcome, !.name = vault,
                        !.internal = pre.is_admin_internal,
                        !.old = fname, !.new = new_name, !.data = b,
                        !.present = TRUE,
                        !.log = LogOutcome(done.outcome = "renamed", log_ok) ]
        /\ UNCHANGED << MASTER_ADMIN_KEY, local, now, next_token, vaults, vault_sessions,
                        buckets, pending, issued >>

Delete(c, sel_ok, fname, ls_ok, rm_ok, del_ok, log_ok) ==
    LET pre == ScriptTop(c, sel_ok).ss
        vault == pre.vault_name
        files == list_bucket_files(vault, ls_ok)
        done == remove_file(vault, fname, rm_ok, del_ok)
    IN  /\ ~pending[c].active
        /\ screen[c] = "gallery"
        /\ pre.page = "gallery"
        /\ InList(files, fname)
        /\ DeleteOffered(pre.is_admin_internal)
        /\ (done.ok /\ log_ok) => Len(vault_logs) < MaxLogs
        /\ st' = [st EXCEPT ![c] = pre]
        /\ objects' = done.objects
        /\ uploads' = done.uploads
        /\ vault_logs' = IF done.ok
                          THEN log_activity(vault_logs, vault,
                                   IF pre.is_ui_admin THEN "VAULT_ADMIN"
                                   ELSE "MASTER_ADMIN",
                                   "delete", fname, << >>, log_ok)
                          ELSE vault_logs
        /\ screen' = [screen EXCEPT ![c] = "gallery"]
        /\ last' = [ TopRun(c, sel_ok, "delete") EXCEPT
                        !.outcome = IF done.ok THEN "deleted" ELSE "delete_failed",
                        !.name = vault, !.internal = pre.is_admin_internal,
                        !.old = fname, !.present = TRUE,
                        !.log = LogOutcome(done.ok, log_ok) ]
        /\ UNCHANGED << MASTER_ADMIN_KEY, local, now, next_token, vaults, vault_sessions,
                        buckets, pending, issued >>

\* Whether the bucket holds an object, or uploads a row, of this name.
Present(bucket_name, filename) ==
    \/ \E o \in objects : o.bucket = bucket_name /\ o.name = filename
    \/ \E i \in DOMAIN uploads :
          uploads[i].vault_name = bucket_name /\ uploads[i].filename = filename

\* remove_file called on its own, for any name of an existing bucket: the
\* gallery calls it only for a name it has just listed, and the name may be
\* gone by the time of the call.
CallRemoveFile(bucket_name, filename, rm_ok, del_ok) ==
    LET done == remove_file(bucket_name, filename, rm_ok, del_ok)
    IN  /\ objects' = done.objects
        /\ uploads' = done.uploads
        /\ last' = [ NoRun EXCEPT
                        !.op = "remove_file",
                        !.outcome = IF done.ok THEN "deleted" ELSE "delete_failed",
                        !.name = bucket_name, !.old = filename,
                        !.present = Present(bucket_name, filename) ]
        /\ UNCHANGED << MASTER_ADMIN_KEY, local, now, next_token, vaults, vault_sessions,
                        buckets, vault_logs, st, screen, pending, issued >>

\* ------------------------------------------------------- activity_log_page
\* "Back to Vault" on the activity log.
ActivityBack(c, sel_ok) ==
    LET pre == ScriptTop(c, sel_ok).ss
    IN  /\ ~pending[c].active
        /\ screen[c] = "activity_log"
        /\ pre.page = "activity_log"
        /\ pre.is_ui_admin
        /\ st' = [st EXCEPT ![c] = [pre EXCEPT !.page = "vault"]]
        /\ screen' = [screen EXCEPT ![c] = "activity_log"]
        /\ last' = [ TopRun(c, sel_ok, "back") EXCEPT !.outcome = "done" ]
        /\ UNCHANGED << MASTER_ADMIN_KEY, local, now, next_token, backend, pending, issued >>

\* ------------------------------------------------------------------ app.py
\* sorted(...) of a set of names.
RECURSIVE Sorted(_)
Sorted(S) ==
    IF S = {} THEN << >>
    ELSE LET m == CHOOSE x \in S : \A y \in S : ~StrLess(y, x)
         IN  <<m>> \o Sorted(S \ {m})

\* os.path.exists(os.path.join(UPLOAD_FOLDER, name))
PathExists(folder, name) == \E o \in folder : o.name = name

\* refresh_file_list: sorted(os.listdir(UPLOAD_FOLDER))
refresh_file_list(folder) == Sorted({ o.name : o \in folder })

\* The "Upload" button of app.py: a file whose name exists in the folder is
\* refused with a warning; otherwise it is written and the list refreshed.
AppUpload(c, f) ==
    LET exists == PathExists(worship_vault_images, f.name)
        folder == IF exists THEN worship_vault_images
                  ELSE worship_vault_images \cup { f }
    IN  /\ worship_vault_images' = folder
        /\ session_files' = IF exists THEN session_files
                             ELSE [session_files EXCEPT ![c] = refresh_file_list(folder)]
        /\ last' = [ NoRun EXCEPT
                        !.c = c, !.op = "app_upload",
                        !.outcome = IF exists THEN "exists" ELSE "uploaded",
                        !.old = f.name, !.data = f.data,
                        !.present = exists ]
        /\ UNCHANGED << MASTER_ADMIN_KEY, now, next_token, backend, st, screen,
                        pending, issued >>

\* A "Delete" button of app.py's gallery, which is drawn from the session's
\* list: os.remove, then the list refreshed.  os.remove of a file that is no
\* longer there raises, and the run ends there.
AppDelete(c, i) ==
    LET img_file == session_files[c][i]
        exists == PathExists(worship_vault_images, img_file)
        folder == { o \in worship_vault_images : o.name # img_file }
    IN  /\ worship_vault_images' = folder
        /\ session_files' = IF exists
                             THEN [session_files EXCEPT ![c] = refresh_file_list(folder)]
                             ELSE session_files
        /\ last' = [ NoRun EXCEPT
                        !.c = c, !.op = "app_delete",
                        !.outcome = IF exists THEN "deleted" ELSE "FileNotFoundError",
                        !.old = img_file, !.present = exists ]
        /\ UNCHANGED << MASTER_ADMIN_KEY, now, next_token, backend, st, screen,
                        pending, issued >>

\* The runs of app.py.
App(C) ==
    \/ \E c \in C, f \in Files : AppUpload(c, f)
    \/ \E c \in C : \E i \in DOMAIN session_files[c] : AppDelete(c, i)

\* ------------------------------------------------------------ the system
\* The outcomes of a backend call that is made (it succeeds or raises); a call
\* that is not made has none, and is written TRUE.
Outcomes(made) == IF made THEN BOOLEAN ELSE { TRUE }

\* The call at which a handler's chain of backend calls is cut short by an
\* exception: the calls before it succeeded, the calls after it are not made.
EnterFails == { "none", "query", "insert" }
UploadFails == { "none", "upload", "insert", "log" }
RenameFails == { "none", "download", "upload", "update", "remove", "log" }
DeleteFails == { "none", "remove", "delete", "log" }

\* T: the sessions that may ever be created.
Enter(C, Names, T) ==
    \E c \in C, fail \in EnterFails,
       vault_input \in Names \cup { NoName }, passkey_input \in PasskeyInputs :
         /\ EnterVault(c, TRUE, vault_input, passkey_input,
                       fail # "query", fail # "insert")
         /\ next_token' <= T + 1

Create(C, Names, Keys, T) ==
    \/ \E c \in C, q_ok \in BOOLEAN, new_name \in Names \cup { NoName },
          keys \in Keys \cup { << "", "" >> } :
            CreateVaultCheck(c, TRUE, new_name, keys[1], keys[2], q_ok)
    \/ \E c \in C, bk_ok, ins_ok \in BOOLEAN :
          \E sess_ok \in Outcomes(ins_ok) :
            /\ CreateVaultInsert(c, bk_ok, ins_ok, sess_ok)
            /\ next_token' <= T + 1

Pages(C) ==
    \/ \E c \in C : \E sel_ok \in Outcomes(st[c].token # NoToken) :
            Rerun(c, sel_ok)
    \/ \E c \in C, sel_ok \in BOOLEAN, click \in VaultClicks \ { "none" } :
          \E del_ok \in Outcomes(click = "home") :
            vault_page(c, sel_ok, click, NoFile, del_ok, TRUE, TRUE, TRUE)
    \/ \E c \in C, sel_ok \in BOOLEAN : GalleryBack(c, sel_ok)
    \/ \E c \in C, sel_ok \in BOOLEAN : ActivityBack(c, sel_ok)

\* Logs: the outcomes of the vault_logs insert that are followed.  Clicks:
\* the buttons that may be clicked in the run that uploads.
Catalog(C, Logs, Clicks) ==
    \/ \E c \in C, sel_ok \in BOOLEAN, click \in Clicks, f \in Files,
          fail \in UploadFails \ { "log" }, log_ok \in Logs :
          \E del_ok \in Outcomes(click = "home") :
            vault_page(c, sel_ok, click, f, del_ok, fail # "upload",
                       fail # "insert", log_ok)
    \/ \E c \in C, sel_ok \in BOOLEAN, fname \in FileNames,
          new_name \in FileNames, fail \in RenameFails \ { "log" }, log_ok \in Logs :
            Rename(c, sel_ok, fname, new_name, TRUE, fail # "download",
                   fail # "download", fail # "upload", fail # "update",
                   fail # "remove", log_ok)
    \/ \E c \in C, sel_ok \in BOOLEAN, fname \in FileNames,
          fail \in DeleteFails \ { "log" }, log_ok \in Logs :
            Delete(c, sel_ok, fname, TRUE, fail # "remove", fail # "delete", log_ok)

AllKeys == { k \in PasskeyInputs \X PasskeyInputs : k[1] # "" /\ k[2] # "" }

\* The whole system.
Next ==
    \/ Tick
    \/ Enter(Clients, NameInputs, MaxTokens)
    \/ Create(Clients, NameInputs, AllKeys, MaxTokens)
    \/ Pages(Clients)
    \/ Catalog(Clients, BOOLEAN, VaultClicks)
    \/ App(Clients)

Spec == Init /\ [][Next]_vars

\* Logins of one client on the vault "a": every pair of passkeys; no clock,
\* no file.
LoginNext ==
    \/ Enter({ 1 }, { <<"a">> }, SoloTokens)
    \/ Create({ 1 }, { <<"a">> }, AllKeys, SoloTokens)
    \/ Pages({ 1 })

SpecLogin == Init /\ [][LoginNext]_vars

\* The life of a session: one client, the vault "a" with passkeys "p"
\* (members) and "s" (admin), and the clock.
SessionNext ==
    \/ Tick
    \/ Enter({ 1 }, { <<"a">> }, SoloTokens)
    \/ Create({ 1 }, { <<"a">> }, { << "p", "s" >> }, SoloTokens)
    \/ Pages({ 1 })

SpecSession == Init /\ [][SessionNext]_vars

\* Vault names: the spellings "a" and "A ", creation by every client and
\* login by the first; no page after the login, no clock, no file.
VaultsNext ==
    \/ Enter({ 1 }, { <<"a">>, <<"A", " ">> }, SoloTokens)
    \/ Create(Clients, { <<"a">>, <<"A", " ">> }, { << "p", "s" >> }, SoloTokens)

SpecVaults == Init /\ [][VaultsNext]_vars

\* The catalog of the vault "a" with passkeys "p" and "s": one client, no
\* clock, no row written to vault_logs, no button clicked while uploading.
FilesNext ==
    \/ Enter({ 1 }, { <<"a">> }, SoloTokens)
    \/ Create({ 1 }, { <<"a">> }, { << "p", "s" >> }, SoloTokens)
    \/ Pages({ 1 })
    \/ Catalog({ 1 }, { FALSE }, { "none" })

SpecFiles == Init /\ [][FilesNext]_vars

\* A deployment runs one of the two scripts: app.py has not run.
OnlyStreamlit ==
    /\ worship_vault_images = {}
    /\ last.op \notin { "app_upload", "app_delete" }

\* A deployment runs one of the two scripts: streamlit_app.py has not run.
OnlyApp ==
    /\ vaults = << >>
    /\ pending = [c \in Clients |-> NoPending]
    /\ last.op \in { "none", "app_upload", "app_delete" }

\* Uploads of the file "f" by two clients: to the vault "a", which the
\* first created and the second logged in to, or to the folder of app.py.
UploadsNext ==
    \/ OnlyStreamlit /\ Enter({ 2 }, { <<"a">> }, MaxTokens)
    \/ OnlyStreamlit /\ Create({ 1 }, { <<"a">> }, { << "p", "s" >> }, MaxTokens)
    \/ \E c \in Clients, sel_ok \in BOOLEAN, data \in Bytes,
          fail \in UploadFails \ { "log" } :
            vault_page(c, sel_ok, "none", [ name |-> <<"f">>, data |-> data ],
                       TRUE, fail # "upload", fail # "insert", FALSE)
    \/ \E c \in Clients : \E sel_ok \in Outcomes(st[c].token # NoToken) :
            OnlyStreamlit /\ st[c].token # NoToken /\ Rerun(c, sel_ok)
    \/ OnlyApp /\ App(Clients)

SpecUploads == Init /\ [][UploadsNext]_vars

\* The catalog of the vault "a", the rows written to vault_logs included:
\* the one client that created it, the deployment's secret not set.
LogsNext ==
    \/ MASTER_ADMIN_KEY = NoKey /\ Create({ 1 }, { <<"a">> }, { << "p", "s" >> }, SoloTokens)
    \/ Pages({ 1 })
    \/ Catalog({ 1 }, BOOLEAN, { "none" })

SpecLogs == Init /\ [][LogsNext]_vars

\* The names of the objects listed: both cases, and a name that starts
\* with "_".
ListNames == { <<"f">>, <<"F">>, <<"G">>, <<"g">>, <<"_", "f">> }

\* Listings of the vault "a": its creator uploads files of these names, with
\* or without their uploads rows.
ListNext ==
    \/ Create({ 1 }, { <<"a">> }, { << "p", "s" >> }, SoloTokens)
    \/ \E sel_ok \in Outcomes(st[1].token # NoToken) : Rerun(1, sel_ok)
    \/ \E name \in ListNames, fail \in { "none", "insert" } :
          vault_page(1, TRUE, "none", [ name |-> name, data |-> 1 ],
                     TRUE, TRUE, fail # "insert", FALSE)

SpecList == Init /\ [][ListNext]_vars

\* The buckets of vaults of every spelling: a client creates a vault and
\* uploads the file "f" to it.
BucketsNext ==
    \/ Create({ 1 }, NameInputs, { << "p", "s" >> }, SoloTokens)
    \/ \E sel_ok \in Outcomes(st[1].token # NoToken) : Rerun(1, sel_ok)
    \/ \E sel_ok \in BOOLEAN, data \in Bytes, fail \in UploadFails \ { "log" } :
          vault_page(1, sel_ok, "none", [ name |-> <<"f">>, data |-> data ],
                     TRUE, fail # "upload", fail # "insert", FALSE)

SpecBuckets == Init /\ [][BucketsNext]_vars

\* The same, with remove_file also called on its own.
RemoveNext ==
    \/ FilesNext
    \/ \E bucket_name \in buckets, filename \in FileNames,
          fail \in DeleteFails \ { "log" } :
            CallRemoveFile(bucket_name, filename, fail # "remove", fail # "delete")

SpecRemove == Init /\ [][RemoveNext]_vars

\* ===================================================================== C1
\* The flags of a tier.
TierFlags(tier) ==
    CASE tier = "SUPER_ADMIN" -> << TRUE, FALSE >>
      [] tier = "VAULT_ADMIN" -> << TRUE, TRUE >>
      [] OTHER -> << FALSE, FALSE >>

Tiers == { "SUPER_ADMIN", "VAULT_ADMIN", "MEMBER" }

\* The session a login created is the row of its token, and is what the
\* client's state holds.
SessionIs(c, token, vault_name, flags) ==
    /\ \E r \in vault_sessions :
          /\ r.token = token
          /\ r.vault_name = vault_name
          /\ << r.is_admin_internal, r.is_ui_admin >> = flags
    /\ st[c].token = token
    /\ st[c].vault_name = vault_name
    /\ << st[c].is_admin_internal, st[c].is_ui_admin >> = flags

\* C1: a login that found the vault and was given a non-empty passkey ends,
\* first match first, as SUPER_ADMIN (true, false) when the passkey is the
\* deployment's secret whatever the vault's passkeys are, else VAULT_ADMIN
\* (true, true) when it is the vault's admin_passkey, else MEMBER (false,
\* false) when it is the vault's member passkey, else IncorrectPasskey with no
\* session; the one other end is a session row that could not be written.
C1_TierFirstMatchWins ==
    (last.op = "enter" /\ last.outcome \notin { "EmptyInput", "VaultNotFound" }) =>
        LET k == last.passkey
            r == last.row
            expected ==
                IF k = MASTER_ADMIN_KEY THEN "SUPER_ADMIN"
                ELSE IF k = r.admin_passkey THEN "VAULT_ADMIN"
                ELSE IF k = r.vault_passkey THEN "MEMBER"
                ELSE "IncorrectPasskey"
        IN  /\ last.outcome \in { expected, "SessionPersistError" }
            /\ expected = "IncorrectPasskey" => last.outcome = expected
            /\ last.outcome \in Tiers =>
                  SessionIs(last.c, last.token, r.vault_name, TierFlags(last.outcome))
            /\ last.outcome \notin Tiers => st[last.c].token = NoToken

\* The deployment's secret wins over a vault whose admin_passkey is the same
\* text.
C1_Witness ==
    /\ last.op = "enter"
    /\ last.outcome = "SUPER_ADMIN"
    /\ last.passkey = last.row.admin_passkey
    /\ st[last.c].is_admin_internal /\ ~st[last.c].is_ui_admin

\* ===================================================================== C3
\* What a run that held a token found the client's state restored to.
Restored(c, i) ==
    /\ st[c].vault_name = i.vault_name
    /\ st[c].is_admin_internal = i.is_admin_internal
    /\ st[c].is_ui_admin = i.is_ui_admin

\* A token whose end_session has run is held by no client, so that every
\* later validate_session returns False at "if not token".
EndedTokensDropped ==
    \A t \in DOMAIN issued : issued[t].ended => \A c \in Clients : st[c].token # t

\* C3 as stated: every run that holds a token of create_session(vault, tier)
\* finds it valid, and the client's state restored to that vault and tier,
\* while less than 24 hours have passed since created_at and end_session
\* has not run; from 24 hours on, and after end_session, it finds it invalid.
C3_ValidUntilEndOrExpiry ==
    /\ last.valid # "none" =>
          LET i == issued[last.token]
          IN  IF now - i.created < SessionHours
              THEN /\ last.valid = "valid"
                   /\ last.op = "render" => Restored(last.c, i)
              ELSE last.valid # "valid"
    /\ EndedTokensDropped

\* C3 as amended: the same, for the runs whose select on vault_sessions did
\* not raise; a run whose select raised finds the token invalid at any age.
C3_ValidWhenLookupSucceeds ==
    /\ last.valid # "none" =>
          LET i == issued[last.token]
          IN  IF now - i.created < SessionHours
              THEN /\ last.valid \in { "valid", "lookup_failed" }
                   /\ (last.valid = "valid" /\ last.op = "render") =>
                         Restored(last.c, i)
              ELSE last.valid # "valid"
    /\ (last.valid = "valid" /\ last.op # "end_session") =>
          \E r \in vault_sessions :
              r.token = last.token /\ FromIsoFormat(r.created_at) = issued[last.token].created
    /\ EndedTokensDropped

\* A session found valid some hours after it was created.
C3_Witness ==
    /\ last.valid = "valid"
    /\ last.op = "render"
    /\ now > issued[last.token].created
    /\ Restored(last.c, issued[last.token])

\* ===================================================================== C4
\* C4: a session is usable only once its row is written.  A client that
\* holds a token holds the token of a row of vault_sessions with the same
\* vault and tier; and a login ("Enter Vault") or a vault creation ("Create
\* Vault") whose session row could not be written leaves the client with no
\* token, no vault_name, no tier flag, on page "home".
C4_SessionOnlyAfterRow ==
    /\ \A c \in Clients :
          st[c].token # NoToken =>
              \E r \in vault_sessions :
                  /\ r.token = st[c].token
                  /\ r.vault_name = st[c].vault_name
                  /\ r.is_admin_internal = st[c].is_admin_internal
                  /\ r.is_ui_admin = st[c].is_ui_admin
    /\ (last.op \in { "enter", "create" } /\ last.outcome = "SessionPersistError") =>
          /\ st[last.c].token = NoToken
          /\ st[last.c].vault_name = NoName
          /\ ~st[last.c].is_admin_internal
          /\ ~st[last.c].is_ui_admin
          /\ st[last.c].page = "home"
          /\ \A r \in vault_sessions : r.token # next_token

\* "Create Vault" wrote the vault, and its session row could not be written.
C4_Witness ==
    /\ last.op = "create"
    /\ last.outcome = "SessionPersistError"
    /\ vaults # << >>
    /\ st[last.c].page = "home"

\* ===================================================================== C5
\* C5: after end_session the table vault_sessions holds no row of the token
\* the client held, the client holds no token, no vault_name and no tier
\* flag, and its page is "home" -- also when the delete raised.
C5_EndSessionDeletesAndDrops ==
    last.op = "end_session" =>
        /\ \A r \in vault_sessions : r.token # last.token
        /\ st[last.c].token = NoToken
        /\ st[last.c].vault_name = NoName
        /\ ~st[last.c].is_admin_internal
        /\ ~st[last.c].is_ui_admin
        /\ st[last.c].page = "home"

\* ===================================================================== C6
\* The name two vaults may not share: trimmed and lower-cased.
NameKey(vault_name) == Lower(Strip(vault_name))

\* C6: no two rows of the table vaults have names that are equal after
\* trimming and lower-casing.
C6_VaultNamesUnique ==
    \A i, j \in DOMAIN vaults :
        i # j => NameKey(vaults[i].vault_name) # NameKey(vaults[j].vault_name)

\* ===================================================================== C7
\* C7: a login whose query did not raise and that was given a name equal,
\* after trimming and lower-casing, to the name N of a vault, and a passkey
\* that is accepted, gets a session of that vault, whose vault_name is N;
\* and it ends as VaultNotFound exactly when no vault has such a name.
C7_LoginResolvesCreatedVault ==
    (last.op = "enter" /\ last.query = "ok") =>
        /\ last.outcome \in Tiers =>
              \A i \in DOMAIN vaults :
                  SameVaultName(vaults[i].vault_name, last.name) =>
                      /\ issued[last.token].vault_name = vaults[i].vault_name
                      /\ st[last.c].vault_name = vaults[i].vault_name
        /\ last.outcome = "VaultNotFound" <=>
              ~\E i \in DOMAIN vaults : SameVaultName(vaults[i].vault_name, last.name)

\* ===================================================================== C2
\* C2: no rename and no delete of a file is executed for a session whose
\* is_admin_internal is false (a MEMBER session).
C2_MemberNeverRenamesOrDeletes ==
    last.op \in { "rename", "delete" } => last.internal

\* ===================================================================== C8
\* An object of this name is stored in the bucket.
Stored(objs, bucket, name) == \E o \in objs : o.bucket = bucket /\ o.name = name

\* C8: a rename to a name other than the old one, under which the vault
\* already holds a file, is rejected: it is not reported as done, and it
\* leaves the objects and the uploads rows as they were.
C8_RenameConflictRejected ==
    [][ ( /\ last'.op = "rename"
          /\ last'.old # last'.new
          /\ Stored(objects, last'.name, last'.new) )
        => /\ last'.outcome # "renamed"
           /\ objects' = objects
           /\ uploads' = uploads ]_vars

\* ===================================================================== C9
\* C9: a rename of which a step failed (the download, the write of the new
\* object, the update of the uploads rows or the removal of the old object)
\* leaves the bytes the file had retrievable under the old or the new name;
\* when the write of the new object failed, they are still under the old
\* name; and in every rename the old object is gone only if the new one
\* was written.
C9_RenameKeepsBytes ==
    [][ last'.op = "rename" =>
          LET v == last'.name
              d == StorageData(objects, v, last'.old)
          IN  /\ last'.outcome # "renamed" =>
                    \/ StorageData(objects', v, last'.old) = d
                    \/ StorageData(objects', v, last'.new) = d
              /\ last'.outcome \in { "download_failed", "upload_failed" } =>
                    /\ StorageData(objects', v, last'.old) = d
                    /\ objects' = objects
              /\ (last'.old # last'.new /\ ~Stored(objects', v, last'.old)) =>
                    StorageData(objects', v, last'.new) = d ]_vars

\* A rename whose write of the new object failed, the old object still there.
C9_Witness ==
    /\ last.op = "rename"
    /\ last.outcome = "upload_failed"
    /\ last.data # NoBytes
    /\ StorageData(objects, last.name, last.old) = last.data

\* ==================================================================== C10
\* C10: a remove_file that reports success leaves no object and no uploads
\* row of the name; one called for a name of which the vault holds neither
\* leaves the objects and the uploads rows as they were; and whenever
\* neither backend call raises it reports success, the name present or not.
C10_DeleteIdempotent ==
    [][ /\ last'.op \in { "delete", "remove_file" } =>
              /\ last'.outcome = "deleted" =>
                    /\ ~Stored(objects', last'.name, last'.old)
                    /\ \A i \in DOMAIN uploads' :
                          ~( uploads'[i].vault_name = last'.name
                             /\ uploads'[i].filename = last'.old )
              /\ ~last'.present => (objects' = objects /\ uploads' = uploads)
        /\ \A b \in buckets, f \in FileNames : remove_file(b, f, TRUE, TRUE).ok
      ]_vars

\* A remove_file of a name the vault does not hold, which reported success
\* while the vault holds another file.
C10_Witness ==
    /\ last.op = "remove_file"
    /\ ~last.present
    /\ last.outcome = "deleted"
    /\ \E o \in objects : o.bucket = last.name

\* ==================================================================== C11
\* C11: an upload_to_bucket or a remove_file that reports failure leaves the
\* objects and the uploads rows as they were before the call.
C11_FailureChangesNothing ==
    [][ ( \/ last'.up = "failed"
          \/ ( last'.op \in { "delete", "remove_file" }
                /\ last'.outcome = "delete_failed" ) )
        => (objects' = objects /\ uploads' = uploads) ]_vars

\* ==================================================================== C12
\* The bytes the folder of app.py holds under a name.
FolderData(folder, name) ==
    LET hit == { o \in folder : o.name = name }
    IN  IF hit = {} THEN NoBytes ELSE (CHOOSE o \in hit : TRUE).data

\* C12, as claimed: an upload is accepted whether or not a file of its name
\* is there already, and afterwards the bytes stored under the name are the
\* bytes of this upload, both for upload_to_bucket (when its backend calls
\* do not raise) and for the upload section of app.py.
C12_LastWriteWins ==
    [][ /\ last'.up = "ok" =>
              StorageData(objects', last'.name, last'.old) = last'.data
        /\ last'.op = "app_upload" =>
              /\ last'.outcome = "uploaded"
              /\ FolderData(worship_vault_images', last'.old) = last'.data ]_vars

\* C12, amended: upload_to_bucket looks nothing up, and when it reports
\* success the bytes stored under the name are the bytes of this upload,
\* whatever was there before; the upload section of app.py refuses a name
\* that exists and leaves the folder as it is, and writes a name that does
\* not exist.
C12_LastWriteWinsInVaultOnly ==
    [][ /\ last'.up = "ok" =>
              StorageData(objects', last'.name, last'.old) = last'.data
        /\ last'.op = "app_upload" =>
              IF PathExists(worship_vault_images, last'.old)
              THEN /\ last'.outcome = "exists"
                   /\ worship_vault_images' = worship_vault_images
              ELSE /\ last'.outcome = "uploaded"
                   /\ FolderData(worship_vault_images', last'.old) = last'.data ]_vars

\* A second accepted upload of the name to the vault, by the other client.
C12_Witness ==
    /\ last.up = "ok"
    /\ last.c = 2
    /\ Len(uploads) = 2
    /\ uploads[1].filename = last.old /\ uploads[2].filename = last.old
    /\ StorageData(objects, last.name, last.old) = last.data

\* ==================================================================== C13
\* C13: what list_bucket_files returns (when the listing does not raise)
\* after each successful operation on a vault: after an upload of f it
\* contains f; after a rename of f to another name g that was not there it
\* contains g and not f; after a delete of g it does not contain g; and on
\* a vault that held nothing the three in a row give <<f>>, <<g>>, << >>.
C13_LifecycleThroughList ==
    [][ \A v \in buckets : v = last'.name =>
        LET before == list_bucket_files(v, TRUE)
            after == list_bucket_files(v, TRUE)'
        IN  /\ last'.up = "ok" =>
                  /\ InList(after, last'.old)
                  /\ before = << >> => after = << last'.old >>
            /\ ( /\ last'.op = "rename" /\ last'.outcome = "renamed"
                  /\ last'.old # last'.new /\ ~InList(before, last'.new) ) =>
                  /\ InList(after, last'.new)
                  /\ ~InList(after, last'.old)
                  /\ before = << last'.old >> => after = << last'.new >>
            /\ (last'.op = "delete" /\ last'.outcome = "deleted") =>
                  /\ ~InList(after, last'.old)
                  /\ before = << last'.old >> => after = << >> ]_vars

\* A vault admin's session in whose vault the one file, uploaded as "f", has
\* just been renamed to "g", and the listing is <<"g">>.
C13_Witness ==
    /\ last.op = "rename" /\ last.outcome = "renamed"
    /\ last.old = <<"f">> /\ last.new = <<"g">>
    /\ st[last.c].is_admin_internal /\ st[last.c].is_ui_admin
    /\ Len(uploads) = 1 /\ uploads[1].filename = <<"g">>
    /\ list_bucket_files(last.name, TRUE) = << <<"g">> >>

\* ==================================================================== C14
\* C14: no two objects of a bucket have the same name, and no two rows of
\* uploads have the same vault_name and filename.
C14_OneEntryPerName ==
    /\ \A o1, o2 \in objects :
          (o1.bucket = o2.bucket /\ o1.name = o2.name) => o1 = o2
    /\ \A i, j \in DOMAIN uploads :
          i # j => ~( uploads[i].vault_name = uploads[j].vault_name
                      /\ uploads[i].filename = uploads[j].filename )

\* ==================================================================== C15
\* The run just recorded was an upload, a rename or a delete that succeeded.
Succeeded(run, action) ==
    CASE action = "upload" -> run.up = "ok"
      [] action = "rename" -> run.op = "rename" /\ run.outcome = "renamed"
      [] action = "delete" -> run.op = "delete" /\ run.outcome = "deleted"
      [] OTHER -> FALSE

\* C15: vault_logs changes only by one row appended for an upload, a rename
\* or a delete that succeeded, naming that action, its vault and its file;
\* and an action whose vault_logs insert was made, whether it raised or
\* not, is reported as succeeded and has left the objects and the uploads
\* rows a succeeded action leaves.
C15_LoggingBestEffort ==
    [][ /\ vault_logs' # vault_logs =>
              /\ Len(vault_logs') = Len(vault_logs) + 1
              /\ SubSeq(vault_logs', 1, Len(vault_logs)) = vault_logs
              /\ LET r == vault_logs'[Len(vault_logs')]
                 IN  /\ r.action \in { "upload", "rename", "delete" }
                     /\ Succeeded(last', r.action)
                     /\ r.vault_name = last'.name
                     /\ r.filename = last'.old
                     /\ last'.log = "ok"
        /\ last'.log \in { "ok", "failed" } =>
              LET v == last'.name
              IN  \/ /\ Succeeded(last', "upload")
                     /\ objects' = StorageUpload(objects, v, last'.old, last'.data)
                     /\ uploads' = Append(uploads, UploadRow(v, last'.old))
                  \/ /\ Succeeded(last', "rename")
                     /\ objects' = StorageRemove(
                            StorageUpload(objects, v, last'.new, last'.data), v, last'.old)
                     /\ uploads' = UpdateRows(uploads, v, last'.old, last'.new)
                  \/ /\ Succeeded(last', "delete")
                     /\ objects' = StorageRemove(objects, v, last'.old)
                     /\ uploads' = DeleteRows(uploads, v, last'.old)
        /\ last'.log = "failed" => vault_logs' = vault_logs ]_vars

\* A rename that succeeded and whose vault_logs insert raised.
C15_Witness ==
    /\ last.op = "rename" /\ last.outcome = "renamed"
    /\ last.log = "failed"
    /\ last.old # last.new
    /\ StorageData(objects, last.name, last.new) = last.data
    /\ vault_logs = << >>

\* ==================================================================== C16
\* The reserved prefix of the names that are internal markers.
HasReservedPrefix(name) == name # << >> /\ Head(name) = "_"

\* C16: list_bucket_files returns the names of the bucket's objects that do
\* not start with the reserved prefix, each once, in the order of their
\* lower-cased spellings.
C16_ListSortedWithoutReserved ==
    \A v \in buckets :
        LET files == list_bucket_files(v, TRUE)
        IN  /\ \A i, j \in DOMAIN files :
                  i < j => ~StrLess(Lower(files[j]), Lower(files[i]))
            /\ \A i, j \in DOMAIN files : i # j => files[i] # files[j]
            /\ { files[i] : i \in DOMAIN files } =
                  { n \in StorageNames(v) : ~HasReservedPrefix(n) }

\* ==================================================================== C17
\* C17: the bucket an upload addresses is the one named by the session's
\* vault name lower-cased with its spaces replaced by hyphens, which is the
\* bucket that was created for the vault.
C17_UploadsToTheVaultsBucket ==
    (last.up # "none" /\ last.token # NoToken) =>
        last.name = ReplaceSpaces(Lower(issued[last.token].vault_name))

\* ==================================================================== C18
\* C18: with no deployment secret configured, no session is a SUPER_ADMIN's
\* (is_admin_internal without is_ui_admin), in the table or in a client's
\* state, and a login that found its vault ends by the vault's passkeys
\* alone: VAULT_ADMIN for the admin_passkey, else MEMBER for the member
\* passkey, else IncorrectPasskey.
C18_NoSuperAdminWithoutSecret ==
    MASTER_ADMIN_KEY = NoKey =>
        /\ \A r \in vault_sessions : r.is_admin_internal => r.is_ui_admin
        /\ \A c \in Clients : st[c].is_admin_internal => st[c].is_ui_admin
        /\ (last.op = "enter" /\ last.outcome \notin { "EmptyInput", "VaultNotFound" }) =>
              LET expected ==
                      IF last.passkey = last.row.admin_passkey THEN "VAULT_ADMIN"
                      ELSE IF last.passkey = last.row.vault_passkey THEN "MEMBER"
                      ELSE "IncorrectPasskey"
              IN  /\ last.outcome \in { expected, "SessionPersistError" }
                  /\ last.outcome \in Tiers =>
                        SessionIs(last.c, last.token, last.row.vault_name,
                                  TierFlags(last.outcome))

\* With no secret configured, a login with the passkey "s" to a vault whose
\* admin_passkey it is.
C18_Witness ==
    /\ MASTER_ADMIN_KEY = NoKey
    /\ last.op = "enter"
    /\ last.passkey = "s"
    /\ last.outcome = "VAULT_ADMIN"
    /\ st[last.c].is_admin_internal /\ st[last.c].is_ui_admin

\* ==================================================================== C19
\* C19: a run whose validate_session returned False for the token the
\* client holds renders no vault page, gallery or activity log, and
\* executes no upload, rename or delete.
C19_InvalidSessionNoAccess ==
    last.valid \in { "invalid", "lookup_failed" } =>
        /\ screen[last.c] \notin { "vault", "gallery", "activity_log" }
        /\ last.up = "none"
        /\ last.op \notin { "rename", "delete" }

\* ==================================================================== C20
\* C20: a rename of a file to its own name leaves the file stored under the
\* name with the bytes it had, and the uploads rows as they were.
C20_RenameToSelfKeepsFile ==
    [][ (last'.op = "rename" /\ last'.old = last'.new) =>
          /\ StorageData(objects', last'.name, last'.old)
                = StorageData(objects, last'.name, last'.old)
          /\ StorageData(objects', last'.name, last'.old) # NoBytes
          /\ uploads' = uploads ]_vars

\* ==================================================================== C21
\* The attempts the login refuses, told from what was typed and what the
\* vaults table holds: an empty field, no vault of that name (or a lookup
\* that found none), or a passkey that is none of the three secrets of the
\* first vault of that name.
RejectedLogin(run, rows) ==
    \/ run.name = NoName
    \/ run.passkey = ""
    \/ run.outcome = "VaultNotFound"
    \/ FirstMatch(rows, run.name) = 0
    \/ LET r == rows[FirstMatch(rows, run.name)]
       IN  run.passkey \notin { MASTER_ADMIN_KEY, r.admin_passkey, r.vault_passkey }

\* C21: a rejected "Enter Vault" (an empty vault name or passkey, an unknown
\* vault name, or a passkey that matches none of the three secrets) writes
\* no row to vault_sessions and leaves the client's token, vault_name, tier
\* flags and page, which is "home", as they were.
C21_RejectedLoginChangesNothing ==
    [][ (last'.op = "enter" /\ RejectedLogin(last', vaults)) =>
            /\ last'.outcome \in { "EmptyInput", "VaultNotFound", "IncorrectPasskey" }
            /\ vault_sessions' = vault_sessions
            /\ \A c \in Clients : c = last'.c =>
                  /\ st'[c].token = st[c].token
                  /\ st'[c].vault_name = st[c].vault_name
                  /\ st'[c].is_admin_internal = st[c].is_admin_internal
                  /\ st'[c].is_ui_admin = st[c].is_ui_admin
                  /\ st'[c].page = st[c].page
                  /\ st'[c].page = "home" ]_vars

\* A wrong passkey for a vault that exists, typed while the session table
\* still holds a row of an earlier login.
C21_Witness ==
    /\ last.op = "enter"
    /\ last.outcome = "IncorrectPasskey"
    /\ last.passkey # ""
    /\ FirstMatch(vaults, last.name) # 0
    /\ vault_sessions # {}
    /\ st[last.c].token = NoToken
    /\ st[last.c].page = "home"

\* ==================================================================== C22
\* C22: the activity-log page is rendered only for a client whose
\* is_ui_admin flag is true, and whose session was created with that flag
\* (a VAULT_ADMIN login or the creation of the vault), never for a MEMBER
\* or SUPER_ADMIN session; and no run leaves a client without the flag on
\* the page "activity_log".
C22_ActivityLogOnlyForUiAdmin ==
    \A c \in Clients :
        /\ screen[c] = "activity_log" =>
              /\ st[c].is_ui_admin
              /\ st[c].token # NoToken
              /\ \A t \in 1..MaxTokens : t = st[c].token => issued[t].is_ui_admin
        /\ ~st[c].is_ui_admin => st[c].page # "activity_log"

\* The log is rendered for a vault admin.
C22_Witness ==
    /\ last.op = "render"
    /\ last.outcome = "activity_log"
    /\ screen[last.c] = "activity_log"
    /\ st[last.c].is_ui_admin
    /\ st[last.c].is_admin_internal
    /\ st[last.c].page = "activity_log"

====
